---------------------------- MODULE Spec2Model ----------------------------
(* Typhaon: schema validation of flat records (typhaon/__init__.py).      *)
(*                                                                         *)
(* Python values are records [t, n, s]: t is type(value).__name__, n the   *)
(* number of an int or bool (True == 1) or the length of a list, s the     *)
(* characters of a str (or the printed form of a datetime).  Text is a     *)
(* sequence of one-character strings, so that parsing, lower-casing and    *)
(* pattern matching are computed on the characters.                        *)
(* A dict is the sequence of its [k, v] items in insertion order.          *)
(* The result of dict.get(key) on a schema item is <<>> for None and <<x>> *)
(* for a value x.                                                          *)
EXTENDS Integers, Sequences, FiniteSets, TLC

VARIABLES
    definition,     \* the argument of Schema(definition)
    status,         \* "new", "compiled", or the exception __init__ raised
    _validators,    \* Schema._validators: dict field name -> list of validators
    last_error,     \* Schema.last_error: the diagnostic lines, in order
    call,           \* <<>> or <<c>>: the latest validate call and its outcome
    kept,           \* <<>> or <<k>>: an earlier call the caller wrote down, the
                    \* last_error read after it, and how many calls followed
    pc,             \* per thread: position inside validate
    t_subject,      \* per thread: argument subject
    t_raise,        \* per thread: argument raise_exception
    t_field,        \* per thread: index of the current item of _validators
    t_rule,         \* per thread: index of the current validator v
    t_result,       \* per thread: local result
    t_read,         \* per thread: last_error as read by the pending +=
    t_outcome,      \* per thread: what the call returned or raised
    t_seen          \* per thread: last_error as the caller read it afterwards

vars == <<definition, status, _validators, last_error, call, kept,
          pc, t_subject, t_raise, t_field, t_rule, t_result, t_read,
          t_outcome, t_seen>>

seqVars == <<call, kept>>
threadVars == <<pc, t_subject, t_raise, t_field, t_rule, t_result, t_read,
                t_outcome, t_seen>>

-----------------------------------------------------------------------------
(* Bounds of the model *)

\* lists in records have 0..MaxListLen elements
MaxListLen == 1

\* the calls counted after the one the caller wrote down
MaxLater == 2

-----------------------------------------------------------------------------
(* Characters and text *)

DigitChars == <<"0", "1", "2", "3", "4", "5", "6", "7", "8", "9">>
UpperChars == <<"A", "B", "C", "D", "E", "F", "G", "H", "I", "J", "K", "L", "M",
                "N", "O", "P", "Q", "R", "S", "T", "U", "V", "W", "X", "Y", "Z">>
LowerChars == <<"a", "b", "c", "d", "e", "f", "g", "h", "i", "j", "k", "l", "m",
                "n", "o", "p", "q", "r", "s", "t", "u", "v", "w", "x", "y", "z">>

Range(f) == {f[i] : i \in DOMAIN f}

IsDigit(c) == c \in Range(DigitChars)

DigitVal(c) == CHOOSE d \in 0..9 : DigitChars[d + 1] = c

\* str.lower(), one character
LowerChar(c) ==
    IF \E i \in DOMAIN UpperChars : UpperChars[i] = c
    THEN LowerChars[CHOOSE i \in DOMAIN UpperChars : UpperChars[i] = c]
    ELSE c

\* str.lower()
Lower(s) == [i \in DOMAIN s |-> LowerChar(s[i])]

\* the decimal digits of a natural number, as str(int) prints them
RECURSIVE NatToChars(_)
NatToChars(n) ==
    IF n < 10 THEN <<DigitChars[n + 1]>>
    ELSE NatToChars(n \div 10) \o <<DigitChars[(n % 10) + 1]>>

\* the number a non-empty string of digits denotes
RECURSIVE CharsToNat(_)
CharsToNat(s) ==
    IF Len(s) = 0 THEN 0
    ELSE 10 * CharsToNat(SubSeq(s, 1, Len(s) - 1)) + DigitVal(s[Len(s)])

\* the characters joined into one string
RECURSIVE Text(_)
Text(s) == IF Len(s) = 0 THEN "" ELSE s[1] \o Text(Tail(s))

-----------------------------------------------------------------------------
(* Python values *)

PyNone == [t |-> "NoneType", n |-> 0, s |-> <<>>]
PyStr(s) == [t |-> "str", n |-> 0, s |-> s]
PyInt(n) == [t |-> "int", n |-> n, s |-> <<>>]
PyBool(b) == [t |-> "bool", n |-> IF b THEN 1 ELSE 0, s |-> <<>>]
\* a list of n elements 'a'
PyList(n) == [t |-> "list", n |-> n, s |-> <<>>]
\* datetime.datetime(2000, 1, 1)
PyDatetime ==
    [t |-> "datetime", n |-> 0,
     s |-> <<"2", "0", "0", "0", "-", "0", "1", "-", "0", "1", " ",
             "0", "0", ":", "0", "0", ":", "0", "0">>]

\* bool(value)
Truthy(v) ==
    CASE v.t = "NoneType" -> FALSE
      [] v.t = "str" -> Len(v.s) > 0
      [] v.t \in {"int", "bool", "list"} -> v.n # 0
      [] OTHER -> TRUE

\* repr of a list of n elements 'a'
RECURSIVE ListItems(_)
ListItems(n) ==
    IF n = 0 THEN <<>>
    ELSE IF n = 1 THEN <<"'", "a", "'">>
    ELSE ListItems(n - 1) \o <<",", " ", "'", "a", "'">>

\* str(value)
Str(v) ==
    CASE v.t = "NoneType" -> <<"N", "o", "n", "e">>
      [] v.t = "str" -> v.s
      [] v.t = "int" -> NatToChars(v.n)
      [] v.t = "bool" -> IF v.n = 1 THEN <<"T", "r", "u", "e">>
                         ELSE <<"F", "a", "l", "s", "e">>
      [] v.t = "list" -> <<"[">> \o ListItems(v.n) \o <<"]">>
      [] OTHER -> v.s

\* float(value): [exc, n]; a str converts when it is a run of digits
Float(v) ==
    CASE v.t \in {"int", "bool"} -> [exc |-> "", n |-> v.n]
      [] v.t = "str" ->
            IF Len(v.s) > 0 /\ \A i \in DOMAIN v.s : IsDigit(v.s[i])
            THEN [exc |-> "", n |-> CharsToNat(v.s)]
            ELSE [exc |-> "ValueError", n |-> 0]
      [] OTHER -> [exc |-> "TypeError", n |-> 0]

\* datetime.datetime.fromisoformat(value), on the form YYYY-MM-DD:
\* "" when it parses, else the exception
FromIsoFormat(v) ==
    IF v.t # "str" THEN "TypeError"
    ELSE IF /\ Len(v.s) = 10
            /\ \A i \in {1, 2, 3, 4, 6, 7, 9, 10} : IsDigit(v.s[i])
            /\ v.s[5] = "-" /\ v.s[8] = "-"
            /\ CharsToNat(SubSeq(v.s, 6, 7)) \in 1..12
            /\ CharsToNat(SubSeq(v.s, 9, 10)) \in 1..31
         THEN ""
         ELSE "ValueError"

-----------------------------------------------------------------------------
(* Regular expressions: the patterns of the model are one character class, *)
(* repeated one or more times, optionally anchored at the end.             *)

\* re.compile(pattern)
ReCompile(pattern) ==
    CASE pattern = "[0-9]+" -> [class |-> Range(DigitChars), end |-> FALSE]
      [] pattern = "[a-z]+$" -> [class |-> Range(LowerChars), end |-> TRUE]

\* regex.match(s) is not None: a match starts at the first character
ReMatch(regex, s) ==
    \E k \in 1..Len(s) :
        /\ \A i \in 1..k : s[i] \in regex.class
        /\ regex.end => k = Len(s)

-----------------------------------------------------------------------------
(* Validators *)

VALID_BOOLEAN_VALUES ==
    [t |-> "tuple",
     items |-> <<PyStr(<<"t", "r", "u", "e">>), PyStr(<<"f", "a", "l", "s", "e">>),
                 PyStr(<<"o", "n">>), PyStr(<<"o", "f", "f">>),
                 PyStr(<<"y", "e", "s">>), PyStr(<<"n", "o">>),
                 PyStr(<<"0">>), PyStr(<<"1">>)>>]

\* the defaults stand for -2^63 and 2^63 - 1, which exceed TLC's
\* integers; every number of the model lies strictly between them
DEFAULT_MIN == -2147483647
DEFAULT_MAX == 2147483647

\* a == b on Python values
PyEq(a, b) ==
    IF a.t \in {"int", "bool"} /\ b.t \in {"int", "bool"} THEN a.n = b.n
    ELSE a = b

\* value in container
PyIn(value, container) ==
    \E i \in DOMAIN container.items : PyEq(value, container.items[i])

\* is_string.__init__
new_is_string(kwargs) ==
    [cls |-> "is_string",
     pattern |-> kwargs.format,
     regex |-> IF kwargs.format # <<>> /\ kwargs.format[1] # ""
               THEN <<ReCompile(kwargs.format[1])>> ELSE <<>>]

\* is_string.__call__
is_string(self, value) ==
    IF self.pattern # <<>> /\ self.pattern[1] # ""
    THEN [exc |-> "", ok |-> ReMatch(self.regex[1], Str(value))]
    ELSE [exc |-> "", ok |-> value.t = "str"]

\* is_valid_enum.__init__: kwargs.get('symbols', ()) finds the key that
\* Schema.__init__ always passes, None when the item has no symbols
new_is_valid_enum(kwargs) ==
    [cls |-> "is_valid_enum", symbols |-> kwargs.symbols]

\* an is_valid_enum.__call__ without the test of the value's truth
is_valid_enum_AnyListed(self, value) ==
    IF self.symbols = <<>> THEN [exc |-> "TypeError", ok |-> FALSE]
    ELSE [exc |-> "", ok |-> PyIn(value, self.symbols[1])]

\* is_valid_enum.__call__: value and value in self.symbols
is_valid_enum(self, value) ==
    IF ~Truthy(value) THEN [exc |-> "", ok |-> FALSE]
    ELSE IF self.symbols = <<>> THEN [exc |-> "TypeError", ok |-> FALSE]
    ELSE [exc |-> "", ok |-> PyIn(value, self.symbols[1])]

\* is_boolean.__init__
new_is_boolean(kwargs) ==
    [cls |-> "is_boolean", symbols |-> <<VALID_BOOLEAN_VALUES>>]

\* is_boolean.__call__
is_boolean(self, value) == is_valid_enum(self, PyStr(Lower(Str(value))))

\* is_numeric.__init__
new_is_numeric(kwargs) ==
    [cls |-> "is_numeric", min |-> kwargs.min, max |-> kwargs.max]

\* is_numeric.__call__
is_numeric(self, value) ==
    LET f == Float(value) IN
    IF f.exc \in {"ValueError", "TypeError"} THEN [exc |-> "", ok |-> FALSE]
    ELSE [exc |-> f.exc, ok |-> f.n >= self.min /\ f.n <= self.max]

is_date(value) ==
    IF value.t \in {"datetime", "date", "time"} THEN [exc |-> "", ok |-> TRUE]
    ELSE [exc |-> "", ok |-> FromIsoFormat(value) = ""]

is_null(value) == [exc |-> "", ok |-> ~Truthy(value)]

other_validator(value) == [exc |-> "", ok |-> TRUE]

is_list(value) == [exc |-> "", ok |-> value.t = "list"]

\* validator(value): [exc, ok], ok the truth of what the validator returned
Apply(validator, value) ==
    CASE validator.cls = "is_string" -> is_string(validator, value)
      [] validator.cls = "is_valid_enum" -> is_valid_enum(validator, value)
      [] validator.cls = "is_boolean" -> is_boolean(validator, value)
      [] validator.cls = "is_numeric" -> is_numeric(validator, value)
      [] validator.cls = "is_date" -> is_date(value)
      [] validator.cls = "is_null" -> is_null(value)
      [] validator.cls = "other_validator" -> other_validator(value)
      [] validator.cls = "is_list" -> is_list(value)

\* repr of the items of a list or tuple of str
RECURSIVE ReprItems(_)
ReprItems(items) ==
    IF Len(items) = 0 THEN ""
    ELSE (IF items[1].t = "str" THEN "'" \o Text(items[1].s) \o "'"
          ELSE Text(Str(items[1])))
         \o (IF Len(items) > 1 THEN ", " ELSE "") \o ReprItems(Tail(items))

\* str(self.symbols)
ReprSymbols(symbols) ==
    IF symbols = <<>> THEN "None"
    ELSE IF symbols[1].t = "tuple" THEN "(" \o ReprItems(symbols[1].items) \o ")"
    ELSE "[" \o ReprItems(symbols[1].items) \o "]"

\* is_numeric.__str__
is_numeric_str(self) ==
    CASE self.min = DEFAULT_MIN /\ self.max = DEFAULT_MAX -> "numeric"
      [] self.min # DEFAULT_MIN /\ self.max # DEFAULT_MAX ->
            "numeric (" \o ToString(self.min) \o " - " \o ToString(self.max) \o ")"
      [] self.min # DEFAULT_MIN /\ self.max = DEFAULT_MAX ->
            "numeric (" \o ToString(self.min) \o " - infinity)"
      [] self.min = DEFAULT_MIN /\ self.max # DEFAULT_MAX ->
            "numeric (infinity - " \o ToString(self.max) \o ")"

\* str(v); a plain function prints as <function name at address>
Describe(v) ==
    CASE v.cls = "is_string" ->
            IF v.pattern # <<>> /\ v.pattern[1] # ""
            THEN "string " \o v.pattern[1] ELSE "string"
      [] v.cls \in {"is_valid_enum", "is_boolean"} -> "enum " \o ReprSymbols(v.symbols)
      [] v.cls = "is_numeric" -> is_numeric_str(v)
      [] OTHER -> "<function " \o v.cls \o ">"

-----------------------------------------------------------------------------
(* Compilation *)

SIMPLE_VALIDATORS ==
    [date |-> "is_date", nullable |-> "is_null", other |-> "other_validator",
     list |-> "is_list", array |-> "is_list"]

COMPLEX_VALIDATORS ==
    [enum |-> "is_valid_enum", numeric |-> "is_numeric", string |-> "is_string",
     boolean |-> "is_boolean"]

\* COMPLEX_VALIDATORS[descriptor](**kwargs)
New(cls, kwargs) ==
    CASE cls = "is_valid_enum" -> new_is_valid_enum(kwargs)
      [] cls = "is_numeric" -> new_is_numeric(kwargs)
      [] cls = "is_string" -> new_is_string(kwargs)
      [] cls = "is_boolean" -> new_is_boolean(kwargs)

\* the type descriptor as a list
DescriptorList(type_descriptor) ==
    IF type_descriptor.t # "list" THEN <<type_descriptor.s>>
    ELSE type_descriptor.items

\* get_validators: [exc, v]; a descriptor in neither table is a KeyError
get_validators(type_descriptor, kwargs) ==
    LET ds == DescriptorList(type_descriptor) IN
    IF \E i \in DOMAIN ds :
          ds[i] \notin DOMAIN COMPLEX_VALIDATORS /\ ds[i] \notin DOMAIN SIMPLE_VALIDATORS
    THEN [exc |-> "KeyError", v |-> <<>>]
    ELSE [exc |-> "",
          v |-> [i \in DOMAIN ds |->
                   IF ds[i] \in DOMAIN COMPLEX_VALIDATORS
                   THEN New(COMPLEX_VALIDATORS[ds[i]], kwargs)
                   ELSE [cls |-> SIMPLE_VALIDATORS[ds[i]]]]]

\* dict[key] = value: a present key keeps its place
DictSet(d, key, value) ==
    IF \E i \in DOMAIN d : d[i].k = key
    THEN [i \in DOMAIN d |-> IF d[i].k = key THEN [k |-> key, v |-> value] ELSE d[i]]
    ELSE Append(d, [k |-> key, v |-> value])

\* dict.get(key, default)
DictGet(d, key, default) ==
    IF \E i \in DOMAIN d : d[i].k = key
    THEN d[CHOOSE i \in DOMAIN d : d[i].k = key].v
    ELSE default

\* item.get(key), <<>> for None
ItemGet(item, key) == IF key \in DOMAIN item THEN <<item[key]>> ELSE <<>>

\* the keyword arguments Schema.__init__ passes for one item
Kwargs(item) ==
    [symbols |-> ItemGet(item, "symbols"),
     min |-> IF "min" \in DOMAIN item THEN item.min ELSE DEFAULT_MIN,
     max |-> IF "max" \in DOMAIN item THEN item.max ELSE DEFAULT_MAX,
     format |-> ItemGet(item, "format")]

\* the dict comprehension of Schema.__init__ from item i on: [exc, d]
RECURSIVE Comprehension(_, _, _)
Comprehension(fields, i, d) ==
    IF i > Len(fields) THEN [exc |-> "", d |-> d]
    ELSE IF "type" \notin DOMAIN fields[i] THEN [exc |-> "KeyError", d |-> <<>>]
    ELSE LET g == get_validators(fields[i].type, Kwargs(fields[i])) IN
         IF g.exc # "" THEN [exc |-> g.exc, d |-> <<>>]
         ELSE Comprehension(fields, i + 1, DictSet(d, fields[i].name, g.v))

\* Schema.__init__ on a parsed definition: [exc, validators]
Schema__init__(def) ==
    LET fields == IF "fields" \in DOMAIN def THEN def.fields ELSE <<>>
        c == Comprehension(fields, 1, <<>>)
    IN  IF c.exc = "KeyError" THEN [exc |-> "ValueError", validators |-> <<>>]
        ELSE IF Len(c.d) = 0 THEN [exc |-> "ValueError", validators |-> <<>>]
        ELSE [exc |-> "", validators |-> c.d]

-----------------------------------------------------------------------------
(* Evaluation *)

\* field_validator: any([validator(value) for validator in validators]);
\* the list is built first, so the first validator that raises ends it
field_validator(value, validators) ==
    LET rs == [j \in DOMAIN validators |-> Apply(validators[j], value)] IN
    IF \E j \in DOMAIN rs : rs[j].exc # ""
    THEN [exc |-> rs[CHOOSE j \in DOMAIN rs :
                        rs[j].exc # "" /\ \A h \in 1..(j - 1) : rs[h].exc = ""].exc,
          ok |-> FALSE]
    ELSE [exc |-> "", ok |-> \E j \in DOMAIN rs : rs[j].ok]

\* subject.get(key)
SubjectGet(subject, key) == DictGet(subject, key, PyNone)

\* one line of last_error:
\* '{key}' ({subject.get(key)}) did not pass validator {str(v)}.\n
ErrorLine(key, subject, v) ==
    [key |-> key, value |-> Str(SubjectGet(subject, key)), validator |-> Describe(v)]

\* the lines the inner loop appends for one failing field
ErrorLines(key, subject, value) ==
    [j \in DOMAIN value |-> ErrorLine(key, subject, value[j])]

\* a validate that forgets to clear the diagnostic of the call before
ResetLastError_Forgotten(old) == old

\* self.last_error = '' at the start of validate
ResetLastError(old) == <<>>

\* the test of one item of self._validators
FieldCheck(validators, subject, key) ==
    field_validator(SubjectGet(subject, key),
                    DictGet(validators, key, <<[cls |-> "other_validator"]>>))

\* the loop of validate from item i on; acc is [result, last_error, exc]
RECURSIVE ValidateLoop(_, _, _, _)
ValidateLoop(validators, subject, i, acc) ==
    IF i > Len(validators) THEN acc
    ELSE LET key == validators[i].k
             value == validators[i].v
             f == FieldCheck(validators, subject, key)
         IN  IF f.exc # "" THEN [acc EXCEPT !.exc = f.exc]
             ELSE IF ~f.ok
             THEN ValidateLoop(validators, subject, i + 1,
                               [acc EXCEPT !.result = FALSE,
                                           !.last_error = @ \o ErrorLines(key, subject, value)])
             ELSE ValidateLoop(validators, subject, i + 1, acc)

\* a validate that raises whenever raise_exception is set
ValidateEnd_RaiseAlways(result, exc, raise_exception, diag) ==
    IF exc # "" THEN [ret |-> "raise", exc |-> exc, msg |-> <<>>]
    ELSE IF raise_exception
    THEN [ret |-> "raise", exc |-> "ValueError", msg |-> diag]
    ELSE [ret |-> IF result THEN "True" ELSE "False", exc |-> "", msg |-> <<>>]

\* what validate gives back once the loop is over: [ret, exc, msg]
ValidateEnd(result, exc, raise_exception, diag) ==
    IF exc # "" THEN [ret |-> "raise", exc |-> exc, msg |-> <<>>]
    ELSE IF raise_exception /\ ~result
    THEN [ret |-> "raise", exc |-> "ValueError", msg |-> diag]
    ELSE [ret |-> IF result THEN "True" ELSE "False", exc |-> "", msg |-> <<>>]

\* a validate that also rejects a record with a key the schema does not name
validate_strict(validators, old_last_error, subject, raise_exception) ==
    LET known == \A i \in DOMAIN subject :
                     \E h \in DOMAIN validators : validators[h].k = subject[i].k
        acc == ValidateLoop(validators, subject, 1,
                            [result |-> known,
                             last_error |-> ResetLastError(old_last_error),
                             exc |-> ""])
        e == ValidateEnd(acc.result, acc.exc, raise_exception, acc.last_error)
    IN  [ret |-> e.ret, exc |-> e.exc, msg |-> e.msg, last_error |-> acc.last_error]

\* Schema.validate run to its end: [ret, exc, msg, last_error]
validate(validators, old_last_error, subject, raise_exception) ==
    LET acc == ValidateLoop(validators, subject, 1,
                            [result |-> TRUE,
                             last_error |-> ResetLastError(old_last_error),
                             exc |-> ""])
        e == ValidateEnd(acc.result, acc.exc, raise_exception, acc.last_error)
    IN  [ret |-> e.ret, exc |-> e.exc, msg |-> e.msg, last_error |-> acc.last_error]

-----------------------------------------------------------------------------
(* The inputs of the model *)

S_abc == <<"a", "b", "c">>
S_100 == <<"1", "0", "0">>
S_True == <<"T", "r", "u", "e">>
S_north == <<"n", "o", "r", "t", "h">>
S_North == <<"N", "o", "r", "t", "h">>
S_south == <<"s", "o", "u", "t", "h">>
S_date == <<"2", "0", "0", "0", "-", "0", "1", "-", "0", "1">>

Values ==
    {PyNone, PyStr(<<>>), PyStr(S_abc), PyStr(S_100), PyStr(S_True), PyStr(S_north),
     PyStr(S_North), PyStr(S_date), PyInt(100), PyInt(0), PyBool(TRUE), PyBool(FALSE), PyDatetime}
    \cup {PyList(n) : n \in 0..MaxListLen}

Item(k, v) == [k |-> k, v |-> v]

\* records with at most the key "a", and some with the keys "b" and "x"
Subjects ==
    {<<>>} \cup {<<Item("a", v)>> : v \in Values}
    \cup {<<Item("x", PyStr(S_abc))>>,
          <<Item("a", PyStr(S_abc)), Item("x", PyStr(S_abc))>>,
          <<Item("a", PyInt(100)), Item("b", PyInt(0))>>,
          <<Item("a", PyStr(S_abc)), Item("b", PyInt(0))>>,
          <<Item("a", PyStr(S_abc)), Item("b", PyStr(S_north))>>,
          <<Item("a", PyStr(S_abc)), Item("b", PyStr(S_north)), Item("x", PyInt(100))>>,
          <<Item("a", PyInt(100)), Item("b", PyStr(S_north))>>}

Field(name, type) == [name |-> name, type |-> [t |-> "str", s |-> type]]
FieldL(name, types) == [name |-> name, type |-> [t |-> "list", items |-> types]]
Symbols == [t |-> "list", items |-> <<PyStr(S_north), PyStr(S_south)>>]
\* symbols that list falsy values: ["north", "", 0, null]
SymbolsFalsy == [t |-> "list", items |-> <<PyStr(S_north), PyStr(<<>>), PyInt(0), PyNone>>]

FieldItems(name) ==
    {Field(name, k) : k \in {"string", "numeric", "boolean", "date", "other", "nullable",
                            "null", "list", "array", "enum", "not_a_real_type"}}
    \cup {Field(name, "string") @@ [format |-> "[0-9]+"],
          Field(name, "string") @@ [format |-> "[a-z]+$"],
          Field(name, "numeric") @@ [min |-> 0, max |-> 50],
          Field(name, "enum") @@ [symbols |-> Symbols],
          Field(name, "enum") @@ [symbols |-> SymbolsFalsy],
          FieldL(name, <<"string", "boolean", "null">>),
          FieldL(name, <<"string", "boolean", "nullable">>),
          FieldL(name, <<"string", "nullable">>),
          FieldL(name, <<"enum", "other">>)}

Definitions ==
    {[name |-> "string"], [fields |-> <<>>]}
    \cup {[fields |-> <<f>>] : f \in FieldItems("a")}
    \cup {[fields |-> <<Field("a", "string"), Field("b", "numeric") @@ [min |-> 0, max |-> 50]>>],
          [fields |-> <<FieldL("a", <<"string", "nullable">>),
                        Field("b", "enum") @@ [symbols |-> Symbols]>>],
          [fields |-> <<Field("a", "numeric"), Field("b", "enum")>>],
          [fields |-> <<Field("a", "string"), Field("b", "not_a_real_type")>>],
          [fields |-> <<Field("a", "string"), Field("a", "numeric")>>],
          [fields |-> <<Field("a", "string"), [name |-> "b"]>>]}

-----------------------------------------------------------------------------
(* The sequential use of one Schema *)

Threads == {1, 2}

ThreadsIdle ==
    /\ pc = [t \in Threads |-> "idle"]
    /\ t_subject = [t \in Threads |-> <<>>]
    /\ t_raise = [t \in Threads |-> FALSE]
    /\ t_field = [t \in Threads |-> 0]
    /\ t_rule = [t \in Threads |-> 0]
    /\ t_result = [t \in Threads |-> TRUE]
    /\ t_read = [t \in Threads |-> <<>>]
    /\ t_outcome = [t \in Threads |-> <<>>]
    /\ t_seen = [t \in Threads |-> <<>>]

Init ==
    /\ definition \in Definitions
    /\ status = "new"
    /\ _validators = <<>>
    /\ last_error = <<>>
    /\ call = <<>>
    /\ kept = <<>>
    /\ ThreadsIdle

\* Schema(definition): a raise leaves no instance behind
Construct ==
    /\ status = "new"
    /\ LET r == Schema__init__(definition) IN
       /\ status' = IF r.exc = "" THEN "compiled" ELSE r.exc
       /\ _validators' = r.validators
    /\ UNCHANGED <<definition, last_error, call, kept, threadVars>>

\* schema.validate(subject, raise_exception)
Validate(subject, raise_exception) ==
    /\ status = "compiled"
    /\ \E r \in {validate(_validators, last_error, subject, raise_exception)} :
       /\ last_error' = r.last_error
       /\ call' = <<[subject |-> subject, raise_exception |-> raise_exception,
                     ret |-> r.ret, exc |-> r.exc, msg |-> r.msg]>>
    /\ kept' = IF kept = <<>> THEN kept
               ELSE <<[kept[1] EXCEPT !.later = IF @ < MaxLater THEN @ + 1 ELSE @]>>
    /\ UNCHANGED <<definition, status, _validators, threadVars>>

\* the caller writes down the latest call and the last_error it reads
Keep ==
    /\ call # <<>>
    /\ kept' = <<[c |-> call[1], last_error |-> last_error, later |-> 0]>>
    /\ UNCHANGED <<definition, status, _validators, last_error, call, threadVars>>

Next ==
    \/ Construct
    \/ \E subject \in Subjects, raise_exception \in BOOLEAN :
          Validate(subject, raise_exception)

Spec == Init /\ [][Next]_vars

-----------------------------------------------------------------------------
(* Pairs of calls: the same use, on fewer records, with the caller free to *)
(* write down a call and compare it with a later one.                      *)

PairSubjects ==
    {s \in Subjects : Len(s) # 1 \/ s[1].k # "a"
                      \/ s[1].v \in {PyNone, PyStr(S_abc), PyInt(100)}}

NextPairs ==
    \/ Construct
    \/ \E subject \in PairSubjects, raise_exception \in BOOLEAN :
          Validate(subject, raise_exception)
    \/ Keep

SpecPairs == Init /\ [][NextPairs]_vars

-----------------------------------------------------------------------------
(* Two threads calling validate on one compiled Schema.  A thread may be   *)
(* switched out between any two bytecodes, so the statements of validate   *)
(* are separate steps and self.last_error += line is a read and a write.   *)

ConcDefinitions ==
    {[fields |-> <<Field("a", "string")>>],
     [fields |-> <<Field("a", "string"), Field("b", "numeric") @@ [min |-> 0, max |-> 50]>>],
     [fields |-> <<FieldL("a", <<"string", "nullable">>)>>]}

ConcSubjects ==
    {<<Item("a", PyStr(S_abc))>>,
     <<Item("a", PyInt(100))>>,
     <<Item("a", PyInt(100)), Item("b", PyStr(S_north))>>}

InitConc ==
    /\ definition \in ConcDefinitions
    /\ status = "compiled"
    /\ _validators = Schema__init__(definition).validators
    /\ last_error = <<>>
    /\ call = <<>>
    /\ kept = <<>>
    /\ ThreadsIdle

\* validate is entered: result = True
T_Call(t, subject, raise_exception) ==
    /\ pc[t] = "idle"
    /\ pc' = [pc EXCEPT ![t] = "reset"]
    /\ t_subject' = [t_subject EXCEPT ![t] = subject]
    /\ t_raise' = [t_raise EXCEPT ![t] = raise_exception]
    /\ t_result' = [t_result EXCEPT ![t] = TRUE]
    /\ UNCHANGED <<definition, status, _validators, last_error, seqVars,
                   t_field, t_rule, t_read, t_outcome, t_seen>>

\* self.last_error = ''
T_Reset(t) ==
    /\ pc[t] = "reset"
    /\ last_error' = ResetLastError(last_error)
    /\ t_field' = [t_field EXCEPT ![t] = 1]
    /\ pc' = [pc EXCEPT ![t] = "field"]
    /\ UNCHANGED <<definition, status, _validators, seqVars,
                   t_subject, t_raise, t_rule, t_result, t_read, t_outcome, t_seen>>

\* the next item of self._validators and its field_validator test, or the
\* end of the loop
T_Field(t) ==
    /\ pc[t] = "field"
    /\ IF t_field[t] > Len(_validators)
       THEN /\ pc' = [pc EXCEPT ![t] = "end"]
            /\ UNCHANGED <<t_result, t_rule, t_field, t_outcome>>
       ELSE LET f == FieldCheck(_validators, t_subject[t], _validators[t_field[t]].k) IN
            IF f.exc # ""
            THEN /\ t_outcome' = [t_outcome EXCEPT ![t] =
                                    <<ValidateEnd(t_result[t], f.exc, t_raise[t], <<>>)>>]
                 /\ pc' = [pc EXCEPT ![t] = "returned"]
                 /\ UNCHANGED <<t_result, t_rule, t_field>>
            ELSE IF ~f.ok
            THEN /\ t_result' = [t_result EXCEPT ![t] = FALSE]
                 /\ t_rule' = [t_rule EXCEPT ![t] = 1]
                 /\ pc' = [pc EXCEPT ![t] = "read"]
                 /\ UNCHANGED <<t_field, t_outcome>>
            ELSE /\ t_field' = [t_field EXCEPT ![t] = @ + 1]
                 /\ UNCHANGED <<pc, t_result, t_rule, t_outcome>>
    /\ UNCHANGED <<definition, status, _validators, last_error, seqVars,
                   t_subject, t_raise, t_read, t_seen>>

\* for v in value: the left side of self.last_error += ... is loaded
T_Read(t) ==
    /\ pc[t] = "read"
    /\ IF t_rule[t] > Len(_validators[t_field[t]].v)
       THEN /\ t_field' = [t_field EXCEPT ![t] = @ + 1]
            /\ pc' = [pc EXCEPT ![t] = "field"]
            /\ UNCHANGED t_read
       ELSE /\ t_read' = [t_read EXCEPT ![t] = last_error]
            /\ pc' = [pc EXCEPT ![t] = "write"]
            /\ UNCHANGED t_field
    /\ UNCHANGED <<definition, status, _validators, last_error, seqVars,
                   t_subject, t_raise, t_rule, t_result, t_outcome, t_seen>>

\* the sum is stored in self.last_error
T_Write(t) ==
    /\ pc[t] = "write"
    /\ last_error' = Append(t_read[t],
                            ErrorLine(_validators[t_field[t]].k, t_subject[t],
                                      _validators[t_field[t]].v[t_rule[t]]))
    /\ t_rule' = [t_rule EXCEPT ![t] = @ + 1]
    /\ pc' = [pc EXCEPT ![t] = "read"]
    /\ UNCHANGED <<definition, status, _validators, seqVars,
                   t_subject, t_raise, t_field, t_result, t_read, t_outcome, t_seen>>

\* after the loop: raise with the last_error of this moment, or return
T_End(t) ==
    /\ pc[t] = "end"
    /\ t_outcome' = [t_outcome EXCEPT ![t] =
                       <<ValidateEnd(t_result[t], "", t_raise[t], last_error)>>]
    /\ pc' = [pc EXCEPT ![t] = "returned"]
    /\ UNCHANGED <<definition, status, _validators, last_error, seqVars,
                   t_subject, t_raise, t_field, t_rule, t_result, t_read, t_seen>>

\* the caller reads schema.last_error after its call
T_Observe(t) ==
    /\ pc[t] = "returned"
    /\ t_seen' = [t_seen EXCEPT ![t] = <<last_error>>]
    /\ pc' = [pc EXCEPT ![t] = "done"]
    /\ UNCHANGED <<definition, status, _validators, last_error, seqVars,
                   t_subject, t_raise, t_field, t_rule, t_result, t_read, t_outcome>>

NextConc ==
    \E t \in Threads :
        \/ \E subject \in ConcSubjects, raise_exception \in BOOLEAN :
              T_Call(t, subject, raise_exception)
        \/ T_Reset(t)
        \/ T_Field(t)
        \/ T_Read(t)
        \/ T_Write(t)
        \/ T_End(t)
        \/ T_Observe(t)

SpecConc == InitConc /\ [][NextConc]_vars

-----------------------------------------------------------------------------
(* Properties *)

\* a rule matches a value: it returns, and what it returns is true
Matches(rule, value) ==
    \E r \in {Apply(rule, value)} : r.exc = "" /\ r.ok

\* some rule of item i of the compiled schema matches the record's value
FieldPasses(i, subject) ==
    \E j \in DOMAIN _validators[i].v :
        Matches(_validators[i].v[j], SubjectGet(subject, _validators[i].k))

AllFieldsPass(subject) == \A i \in DOMAIN _validators : FieldPasses(i, subject)

\* the kinds the specification recognizes
RecognizedKinds ==
    {"string", "numeric", "boolean", "date", "enum", "null", "nullable", "list",
     "array", "other"}

DefinitionFields(def) == IF "fields" \in DOMAIN def THEN def.fields ELSE <<>>

\* every field entry has a name and a type
WellFormed(def) ==
    \A i \in DOMAIN DefinitionFields(def) :
        {"name", "type"} \subseteq DOMAIN DefinitionFields(def)[i]

\* the kind names a well-formed definition mentions
Kinds(def) ==
    UNION {Range(DescriptorList(DefinitionFields(def)[i].type)) :
             i \in DOMAIN DefinitionFields(def)}

\* the latest call and the last_error left by it, as the caller reads them
Latest == [c |-> call[1], last_error |-> last_error]

\* two observations of a call look the same to the caller
SameOutcome(o1, o2) ==
    /\ o1.c.ret = o2.c.ret
    /\ o1.c.exc = o2.c.exc
    /\ o1.c.msg = o2.c.msg
    /\ o1.last_error = o2.last_error

\* a call was written down and another call came after it
TwoCalls == kept # <<>> /\ kept[1].later >= 1

\* C1: validate returns true exactly when every field of the compiled schema
\* has at least one rule matching the record's value for it (None when the
\* record lacks the field), and returns false when some field has none.
C1_VerdictIsAllFieldsAnyRule ==
    call # <<>> =>
        /\ call[1].ret = "True" <=> AllFieldsPass(call[1].subject)
        /\ (~AllFieldsPass(call[1].subject) /\ ~call[1].raise_exception)
              => call[1].ret = "False"

\* C2: construction fails, leaving no validators, exactly when the definition
\* has no fields key, an empty fields list, or a field naming a kind outside
\* the recognized set.
C2_ConstructionFailsExactlyOnBadSchemas ==
    (status # "new" /\ WellFormed(definition)) =>
        /\ status = "ValueError" <=>
              \/ "fields" \notin DOMAIN definition
              \/ DefinitionFields(definition) = <<>>
              \/ \E k \in Kinds(definition) : k \notin RecognizedKinds
        /\ status = "ValueError" => _validators = <<>>

\* C3: a schema whose fields use the kind null (alone or among recognized
\* alternatives) compiles, and a field of type null alone passes exactly the
\* falsy values.
C3_NullIsRecognized ==
    (status # "new" /\ WellFormed(definition) /\ "null" \in Kinds(definition)
       /\ Kinds(definition) \subseteq RecognizedKinds) =>
        /\ status = "compiled"
        /\ (call # <<>> /\ Kinds(definition) = {"null"}) =>
              (call[1].ret = "True" <=>
                  \A i \in DOMAIN _validators :
                      ~Truthy(SubjectGet(call[1].subject, _validators[i].k)))

\* C4: for the same record, the call with raise_exception raises the
\* validation error exactly when the call without it returns false, the error
\* carries the whole diagnostic of that call, and when the plain call returns
\* true the call with the flag returns true.
C4_RaisesExactlyWhenFalse ==
    (TwoCalls /\ kept[1].c.subject = call[1].subject
       /\ ~kept[1].c.raise_exception /\ call[1].raise_exception) =>
        /\ call[1].exc = "ValueError" <=> kept[1].c.ret = "False"
        /\ call[1].exc = "ValueError" =>
              call[1].msg = last_error /\ call[1].msg = kept[1].last_error
        /\ kept[1].c.ret = "True" => call[1].ret = "True"

\* a failing record validated plainly, and later again with raise_exception
C4_Witness ==
    /\ TwoCalls
    /\ kept[1].c.subject = call[1].subject
    /\ ~kept[1].c.raise_exception /\ call[1].raise_exception
    /\ kept[1].c.ret = "False"
    /\ call[1].exc = "ValueError"
    /\ Len(call[1].msg) >= 2

\* C5: a call without raise_exception on a compiled schema returns a boolean
\* and never raises.
C5_PlainCallNeverRaises ==
    (call # <<>> /\ ~call[1].raise_exception) => call[1].ret \in {"True", "False"}

\* the diagnostic lines validate produces for a record when it runs alone
OwnLines(subject) == Range(validate(_validators, <<>>, subject, FALSE).last_error)

\* C6: with two calls interleaved, the diagnostic a caller reads after its call
\* returned, and the text of an error raised to it, hold only lines produced
\* for its own record.
C6_NoLeakBetweenCalls ==
    \A t \in Threads :
        pc[t] = "done" =>
            /\ Range(t_seen[t][1]) \subseteq OwnLines(t_subject[t])
            /\ Range(t_outcome[t][1].msg) \subseteq OwnLines(t_subject[t])

\* the diagnostic expected of a call, from item i on: for each failing field,
\* in schema order, one line per rule of the field
RECURSIVE ExpectedDiagnostic(_, _)
ExpectedDiagnostic(subject, i) ==
    IF i > Len(_validators) THEN <<>>
    ELSE (IF FieldPasses(i, subject) THEN <<>>
          ELSE [j \in DOMAIN _validators[i].v |->
                  [key |-> _validators[i].k,
                   value |-> Str(SubjectGet(subject, _validators[i].k)),
                   validator |-> Describe(_validators[i].v[j])]])
         \o ExpectedDiagnostic(subject, i + 1)

\* C7: after a call, last_error is empty exactly when the verdict was true, and
\* otherwise holds the lines of exactly the failing fields of that call.
C7_LastErrorDescribesLatestCall ==
    call # <<>> =>
        /\ last_error = <<>> <=> call[1].ret = "True"
        /\ call[1].ret # "True" => last_error = ExpectedDiagnostic(call[1].subject, 1)

\* C8: validating the same record again, with the same raise_exception, gives
\* the same outcome and the same diagnostic, whatever was validated before or
\* in between.
C8_SameRecordSameOutcome ==
    (TwoCalls /\ kept[1].c.subject = call[1].subject
       /\ kept[1].c.raise_exception = call[1].raise_exception) =>
        SameOutcome(kept[1], Latest)

\* a failing record validated, then another call, then the record again
C8_Witness ==
    /\ TwoCalls
    /\ kept[1].later >= 2
    /\ kept[1].c = call[1]
    /\ call[1].ret = "False"
    /\ last_error # <<>>

\* the two records give the same value for every field of the compiled schema
AgreeOnSchemaFields(s1, s2) ==
    \A i \in DOMAIN _validators :
        SubjectGet(s1, _validators[i].k) = SubjectGet(s2, _validators[i].k)

\* C9: two records that agree on every schema field get the same outcome and
\* the same diagnostic, whatever other keys they hold.
C9_ExtraKeysIgnored ==
    (TwoCalls /\ kept[1].c.raise_exception = call[1].raise_exception
       /\ AgreeOnSchemaFields(kept[1].c.subject, call[1].subject)) =>
        SameOutcome(kept[1], Latest)

\* two failing records that differ only in a key the schema does not name
C9_Witness ==
    /\ TwoCalls
    /\ kept[1].c.raise_exception = call[1].raise_exception
    /\ AgreeOnSchemaFields(kept[1].c.subject, call[1].subject)
    /\ kept[1].c.subject # call[1].subject
    /\ \E i \in DOMAIN call[1].subject :
          \A h \in DOMAIN _validators : _validators[h].k # call[1].subject[i].k
    /\ call[1].ret = "False"
    /\ last_error # <<>>

\* the compiled schema is one field with the single rule string
StringOnlySchema ==
    /\ status = "compiled"
    /\ Len(_validators) = 1
    /\ Len(_validators[1].v) = 1
    /\ _validators[1].v[1].cls = "is_string"

\* C10: a string-only field passes exactly the text values (those the pattern
\* matches, when a format is declared); a non-text value fails it.
C10_StringMatchesOnlyText ==
    (StringOnlySchema /\ call # <<>>) =>
        \E rule \in {_validators[1].v[1]},
           value \in {SubjectGet(call[1].subject, _validators[1].k)} :
            call[1].ret = "True" <=>
                /\ value.t = "str"
                /\ rule.regex = <<>> \/ ReMatch(rule.regex[1], value.s)

\* the compiled schema is one field with the single rule enum
EnumOnlySchema ==
    /\ status = "compiled"
    /\ Len(_validators) = 1
    /\ Len(_validators[1].v) = 1
    /\ _validators[1].v[1].cls = "is_valid_enum"

\* the value is one of the symbols declared for the rule, character for character
Listed(rule, value) ==
    /\ rule.symbols # <<>>
    /\ \E i \in DOMAIN rule.symbols[1].items : rule.symbols[1].items[i] = value

\* C11: an enum-only field passes exactly the truthy values listed in its
\* symbols; with symbols declared, an unlisted value fails and so does a falsy
\* value that is listed.
C11_EnumMatchesTruthyListed ==
    (EnumOnlySchema /\ call # <<>>) =>
        \E rule \in {_validators[1].v[1]},
           value \in {SubjectGet(call[1].subject, _validators[1].k)} :
            /\ call[1].ret = "True" <=> (Truthy(value) /\ Listed(rule, value))
            /\ (rule.symbols # <<>> /\ ~(Truthy(value) /\ Listed(rule, value))) =>
                  IF call[1].raise_exception THEN call[1].exc = "ValueError"
                  ELSE call[1].ret = "False"

\* the empty string, listed in the symbols, failed the enum field
C11_Witness ==
    /\ EnumOnlySchema
    /\ call # <<>>
    /\ SubjectGet(call[1].subject, _validators[1].k) = PyStr(<<>>)
    /\ Listed(_validators[1].v[1], PyStr(<<>>))
    /\ call[1].ret = "False"
    /\ last_error # <<>>

=============================================================================
